---- MODULE Spec2Model ----
(***************************************************************************)
(* A model of folly/Bits.h: findFirstSet, findLastSet, nextPowTwo, Endian, *)
(* BitIterator and the ranged findFirstSet.                                *)
(*                                                                         *)
(* A value of a w-bit integral type is its bit pattern: the set of the     *)
(* positions (0 = least significant) of its 1 bits, a subset of 0..w-1.    *)
(* Counts, shift amounts and bit offsets are plain integers.               *)
(* The data model is LP64 (int 32 bits, long and long long 64 bits), the   *)
(* one folly builds on.                                                    *)
(***************************************************************************)
EXTENDS Integers, FiniteSets, Sequences

VARIABLES
  T,        \* the integral type of the argument: [bits, signed]
  x,        \* the argument's bit pattern
  fn,       \* the function called last ("none" before any call)
  ret,      \* what it returned
  gnuc,     \* the build: TRUE when __GNUC__ is defined
  order,    \* the build: __BYTE_ORDER, "LITTLE" or "BIG"
  bpb,      \* BitIterator: bitsPerBlock() of the block type
  it,       \* BitIterator: the iterator, [base, bitOffset]
  other,    \* BitIterator: a second iterator over the same sequence
  last,     \* BitIterator: the last operation, and what its claims compare its result with
  walk,     \* BitIterator: increments applied since makeBitIterator(begin), -1 when not walking
  blocks,   \* ranged findFirstSet: the block sequence
  begin,    \* ranged findFirstSet: the local copy of begin
  end,      \* ranged findFirstSet: end
  arg,      \* ranged findFirstSet: the arguments of the call, and the blocks at the call
  pc,       \* ranged findFirstSet: position in the function
  reads,    \* ranged findFirstSet: indices of the blocks dereferenced
  result    \* ranged findFirstSet: the iterator returned

vars == <<T, x, fn, ret, gnuc, order, bpb, it, other, last, walk,
          blocks, begin, end, arg, pc, reads, result>>

scanVars == <<T, x, fn, ret, gnuc, order>>
iterVars == <<bpb, it, other, last, walk>>
findVars == <<blocks, begin, end, arg, pc, reads, result>>

(***************************************************************************)
(* Bounds of the model.                                                    *)
(***************************************************************************)
\* Arguments have at most this many 1 bits among the probe positions (then
\* complemented, decremented), besides every pattern of the low byte.
MaxSetBits == 2

(***************************************************************************)
(* The data model.                                                         *)
(***************************************************************************)
IntBits == 32
LongBits == 64
SizeBits == 64

int == [bits |-> IntBits, signed |-> TRUE]
long == [bits |-> LongBits, signed |-> TRUE]
unsigned_int == [bits |-> IntBits, signed |-> FALSE]
unsigned_long == [bits |-> LongBits, signed |-> FALSE]
uint64_t == [bits |-> 64, signed |-> FALSE]
uint32_t == [bits |-> 32, signed |-> FALSE]

IntegralTypes == [bits : {8, 16, 32, 64}, signed : BOOLEAN]

\* std::numeric_limits<T>::digits
digits(t) == IF t.signed THEN t.bits - 1 ELSE t.bits

make_signed(t) == [t EXCEPT !.signed = TRUE]
make_unsigned(t) == [t EXCEPT !.signed = FALSE]

(***************************************************************************)
(* Bit patterns.                                                           *)
(***************************************************************************)
Bit(v, i) == IF i \in v THEN 1 ELSE 0

Min(S) == CHOOSE m \in S : \A k \in S : m <= k
Max(S) == CHOOSE m \in S : \A k \in S : m >= k

One == {0}
AllOnes(w) == 0..(w - 1)

\* An integral conversion keeps the value modulo 2^to.bits: it truncates, or
\* extends with the sign bit (a signed source) or with zeros.
static_cast_extends(v, from) == IF from.signed /\ (from.bits - 1) \in v
                                  THEN v \cup (from.bits..(SizeBits - 1))
                                  ELSE v

static_cast(v, from, to) == static_cast_extends(v, from) \cap (0..(to.bits - 1))

\* Integral promotion: a type narrower than int becomes int.
Promoted(t) == IF t.bits < IntBits THEN int ELSE t

BitAnd(a, b) == a \cap b
BitOr(a, b) == a \cup b
BitNot(a, w) == AllOnes(w) \ a

\* Unsigned comparison of two bit patterns: the highest bit they differ in decides.
Less(a, b) == a # b /\ Max((a \ b) \cup (b \ a)) \in b
LessEq(a, b) == a = b \/ Less(a, b)

\* a >> n in a w-bit unsigned (or non-negative) operand, 0 <= n < w.
ShiftRight(a, n) == {b - n : b \in {c \in a : c >= n}}
\* a << n in a w-bit operand, 0 <= n < w.
ShiftLeft(a, n, w) == {b + n : b \in {c \in a : c + n < w}}

\* A shift by n >= w is undefined behaviour.  The builds produce either 0 or the
\* shift by n modulo w (the x86 shift instructions mask the count).
ShiftOutcomes == {"zero", "wrap"}

ShiftRightUB(a, n, w, ub) ==
  IF n < w THEN ShiftRight(a, n)
  ELSE IF ub = "zero" THEN {} ELSE ShiftRight(a, n % w)

ShiftLeftUB(a, n, w, ub) ==
  IF n < w THEN ShiftLeft(a, n, w)
  ELSE IF ub = "zero" THEN {} ELSE ShiftLeft(a, n % w, w)

\* Arithmetic on patterns is done in four 16-bit limbs.
Octet(v, k) ==
  Bit(v, 8 * k) + 2 * Bit(v, 8 * k + 1) + 4 * Bit(v, 8 * k + 2) + 8 * Bit(v, 8 * k + 3)
    + 16 * Bit(v, 8 * k + 4) + 32 * Bit(v, 8 * k + 5) + 64 * Bit(v, 8 * k + 6)
    + 128 * Bit(v, 8 * k + 7)

Limb(v, k) == Octet(v, 2 * k) + 256 * Octet(v, 2 * k + 1)
LimbBits(n, k) == {16 * k + c : c \in {e \in 0..15 : (n \div (2 ^ e)) % 2 = 1}}

\* a + b + c modulo 2^w, c the carry in.
AddCarry(a, b, c, w) ==
  LET s0 == Limb(a, 0) + Limb(b, 0) + c
      s1 == Limb(a, 1) + Limb(b, 1) + s0 \div 65536
      s2 == Limb(a, 2) + Limb(b, 2) + s1 \div 65536
      s3 == Limb(a, 3) + Limb(b, 3) + s2 \div 65536
  IN  (LimbBits(s0 % 65536, 0) \cup LimbBits(s1 % 65536, 1)
         \cup LimbBits(s2 % 65536, 2) \cup LimbBits(s3 % 65536, 3)) \cap AllOnes(w)

Add(a, b, w) == AddCarry(a, b, 0, w)
Sub(a, b, w) == AddCarry(a, BitNot(b, w), 1, w)

\* a * m modulo 2^w, m a small non-negative integer.
Mul(a, m, w) ==
  LET s0 == Limb(a, 0) * m
      s1 == Limb(a, 1) * m + s0 \div 65536
      s2 == Limb(a, 2) * m + s1 \div 65536
      s3 == Limb(a, 3) * m + s2 \div 65536
  IN  (LimbBits(s0 % 65536, 0) \cup LimbBits(s1 % 65536, 1)
         \cup LimbBits(s2 % 65536, 2) \cup LimbBits(s3 % 65536, 3)) \cap AllOnes(w)

\* Unsigned division of a by d, a small positive integer: [q, r].
DivMod(a, d) ==
  LET c3 == Limb(a, 3)
      c2 == (c3 % d) * 65536 + Limb(a, 2)
      c1 == (c2 % d) * 65536 + Limb(a, 1)
      c0 == (c1 % d) * 65536 + Limb(a, 0)
  IN  [q |-> LimbBits(c3 \div d, 3) \cup LimbBits(c2 \div d, 2)
               \cup LimbBits(c1 \div d, 1) \cup LimbBits(c0 \div d, 0),
       r |-> c0 % d]

Div(a, d) == DivMod(a, d).q
Mod(a, d) == DivMod(a, d).r

\* The pattern, in w bits, of an integer -2^30 <= n < 2^30 (two's complement).
WordOf(n, w) ==
  LET m == IF n >= 0 THEN n ELSE n + 2 ^ 30
  IN  {b \in 0..29 : b < w /\ (m \div (2 ^ b)) % 2 = 1}
        \cup (IF n < 0 THEN 30..(w - 1) ELSE {})

\* The integer a w-bit pattern stands for, read as signed; only for |value| < 2^30.
IsSmall(v, w) == (30..(w - 1)) \cap v \in {{}, 30..(w - 1)}

IntOf(v, w) ==
  Limb(v, 0) + 65536 * (Limb(v, 1) % 16384) - (IF (w - 1) \in v THEN 2 ^ 30 ELSE 0)

(***************************************************************************)
(* findFirstSet(x)                                                         *)
(***************************************************************************)
\* glibc's ffs, ffsl: the 1-based position of the least significant 1 bit, 0 for 0.
ffs(i) == IF i = {} THEN 0 ELSE 1 + Min(i)
ffsl(i) == IF i = {} THEN 0 ELSE 1 + Min(i)

findFirstSet_int(t, v) == ffs(static_cast(v, t, int))

findFirstSet_long_via_int(t, v) == ffs(static_cast(v, t, int))
findFirstSet_long(t, v) == ffsl(static_cast(v, t, long))

\* The overload enable_if selects for a signed T.
findFirstSet_signed(t, v) ==
  IF digits(t) <= digits(int) THEN findFirstSet_int(t, v)
  ELSE findFirstSet_long(t, v)

findFirstSet_unsigned(t, v) ==
  findFirstSet_signed(make_signed(t), static_cast(v, t, make_signed(t)))

findFirstSet(t, v) ==
  IF t.signed THEN findFirstSet_signed(t, v) ELSE findFirstSet_unsigned(t, v)

(***************************************************************************)
(* findLastSet(x)                                                          *)
(***************************************************************************)
\* while (x >>= 1) ++r;  The loop leaves at its first test that finds x zero: the
\* n-th, after n - 1 increments of r.
findLastSetPortableLoop(v, r) ==
  LET tests == {k \in 1..uint64_t.bits : ShiftRight(v, k) = {}}
      n == CHOOSE k \in tests : \A j \in tests : k <= j
  IN  r + (n - 1)

findLastSetPortable(v) == findLastSetPortableLoop(v, IF v # {} THEN 1 ELSE 0)

\* __builtin_clz, __builtin_clzl, __builtin_clzll: the number of leading 0 bits
\* of a non-zero w-bit operand.
builtin_clz(v, w) == (w - 1) - Max(v)

findLastSet_uint(t, v) ==
  IF v # {} THEN IntBits - builtin_clz(static_cast(v, t, unsigned_int), IntBits) ELSE 0

findLastSet_ulong(t, v) ==
  IF v # {} THEN LongBits - builtin_clz(static_cast(v, t, unsigned_long), LongBits) ELSE 0

findLastSet_unsigned(t, v, g) ==
  IF g
    THEN IF digits(t) <= digits(unsigned_int) THEN findLastSet_uint(t, v) ELSE findLastSet_ulong(t, v)
    ELSE findLastSetPortable(static_cast(v, t, uint64_t))

findLastSet_signed_widened(t, v, g) ==
  findLastSet_unsigned(unsigned_int, static_cast(v, t, unsigned_int), g)
findLastSet_signed(t, v, g) ==
  findLastSet_unsigned(make_unsigned(t), static_cast(v, t, make_unsigned(t)), g)

findLastSet(t, v, g) ==
  IF t.signed THEN findLastSet_signed(t, v, g) ELSE findLastSet_unsigned(t, v, g)

(***************************************************************************)
(* nextPowTwo(v)                                                           *)
(***************************************************************************)
\* v |= (v >> (i << k)); for k = from..7, v of the unsigned type t.  The shift is
\* done in the promoted type, the result converted back to t.
RECURSIVE nextPowTwoPortableSmear(_, _, _, _, _)
nextPowTwoPortableSmear(t, v, i, k, ub) ==
  IF k > 7 THEN v
  ELSE LET pt == Promoted(t)
           sh == ShiftRightUB(static_cast(v, t, pt), i * (2 ^ k), pt.bits, ub)
           v1 == static_cast(BitOr(static_cast(v, t, pt), sh), pt, t)
       IN  CHOOSE r \in {nextPowTwoPortableSmear(t, w, i, k + 1, ub) : w \in {v1}} : TRUE

\* for (uint32_t i = 1; i < sizeof(T) * 8; i <<= 8) { ... }
RECURSIVE nextPowTwoPortableLoop(_, _, _, _)
nextPowTwoPortableLoop(t, v, i, ub) ==
  IF i < t.bits
    THEN nextPowTwoPortableLoop(t, nextPowTwoPortableSmear(t, v, i, 0, ub), i * 256, ub)
    ELSE v

nextPowTwoPortable_half_smear(t, v, ub) ==
  IF v = {} THEN One
  ELSE LET v1 == Sub(v, One, t.bits)
           v2 == BitOr(v1, ShiftRight(v1, 1))
           v3 == BitOr(v2, ShiftRight(v2, 2))
           v4 == BitOr(v3, ShiftRight(v3, 4))
       IN  Add(v4, One, t.bits)
nextPowTwoPortable(t, v, ub) ==
  IF v = {} THEN One
  ELSE LET v1 == Sub(v, One, t.bits)
           v2 == nextPowTwoPortableLoop(t, v1, 1, ub)
       IN  Add(v2, One, t.bits)

\* return 1ul << findLastSet(v - 1);  v - 1 has the promoted type of T.
nextPowTwo_gnuc_of_v(t, v, ub) ==
  IF v = {} THEN One
  ELSE LET pt == Promoted(t)
           r == findLastSet(pt, static_cast(v, t, pt), TRUE)
       IN  static_cast(ShiftLeftUB(One, r, LongBits, ub), unsigned_long, t)
nextPowTwo_gnuc(t, v, ub) ==
  IF v = {} THEN One
  ELSE LET pt == Promoted(t)
           vm1 == Sub(static_cast(v, t, pt), One, pt.bits)
           r == findLastSet(pt, vm1, TRUE)
       IN  static_cast(ShiftLeftUB(One, r, LongBits, ub), unsigned_long, t)

nextPowTwo(t, v, g, ub) ==
  IF g THEN nextPowTwo_gnuc(t, v, ub) ELSE nextPowTwoPortable(t, v, ub)

(***************************************************************************)
(* Endian                                                                  *)
(***************************************************************************)
ByteOf(v, k) == v \cap ((8 * k)..(8 * k + 7))

\* Byte `from` of v, moved to byte `to` of a w-bit value.
MoveByte(v, from, to, w) ==
  IF to >= from THEN ShiftLeft(ByteOf(v, from), 8 * (to - from), w)
  ELSE ShiftRight(ByteOf(v, from), 8 * (from - to))

\* <byteswap.h>
bswap_16(v) == MoveByte(v, 0, 1, 16) \cup MoveByte(v, 1, 0, 16)
bswap_32(v) == MoveByte(v, 0, 3, 32) \cup MoveByte(v, 1, 2, 32)
                 \cup MoveByte(v, 2, 1, 32) \cup MoveByte(v, 3, 0, 32)
bswap_64(v) == MoveByte(v, 0, 7, 64) \cup MoveByte(v, 1, 6, 64)
                 \cup MoveByte(v, 2, 5, 64) \cup MoveByte(v, 3, 4, 64)
                 \cup MoveByte(v, 4, 3, 64) \cup MoveByte(v, 5, 2, 64)
                 \cup MoveByte(v, 6, 1, 64) \cup MoveByte(v, 7, 0, 64)

\* FB_GEN(t, fn): EndianIntBase<t>::swap(t x) { return fn(x); }
EndianIntBase_swap_32_for_64(t, v) ==
  CASE t.bits = 8 -> v
    [] t.bits = 16 -> bswap_16(v)
    [] t.bits = 32 -> bswap_32(v)
    [] t.bits = 64 -> static_cast(bswap_32(static_cast(v, t, uint32_t)), uint32_t, t)
EndianIntBase_swap(t, v) ==
  CASE t.bits = 8 -> v
    [] t.bits = 16 -> bswap_16(v)
    [] t.bits = 32 -> bswap_32(v)
    [] t.bits = 64 -> bswap_64(v)

EndianInt_big(t, v, ord) == IF ord = "LITTLE" THEN EndianIntBase_swap(t, v) ELSE v
EndianInt_little(t, v, ord) == IF ord = "LITTLE" THEN v ELSE EndianIntBase_swap(t, v)

Endian_order(ord) == ord
Endian_swap(t, v) == EndianIntBase_swap(t, v)
Endian_big(t, v, ord) == EndianInt_big(t, v, ord)
Endian_little(t, v, ord) == EndianInt_little(t, v, ord)

\* FB_GEN1(fn, t, sz): static t fn##sz(t x) { return fn<t>(x); }
Endian_swapN(sz, sgn, v) == Endian_swap([bits |-> sz, signed |-> sgn], v)
Endian_bigN(sz, sgn, v, ord) == Endian_big([bits |-> sz, signed |-> sgn], v, ord)
Endian_littleN(sz, sgn, v, ord) == Endian_little([bits |-> sz, signed |-> sgn], v, ord)

(***************************************************************************)
(* The arguments the scalar functions are called with.                     *)
(***************************************************************************)
ProbeBits(w) == {b \in 0..(w - 1) : b % 8 \in {0, 7}} \cup {1, w - 2}

RECURSIVE UpTo(_, _)
UpTo(S, k) ==
  IF k = 0 THEN {{}}
  ELSE LET P == UpTo(S, k - 1) IN P \cup {p \cup {e} : p \in P, e \in S}

Sparse(w) == UpTo(ProbeBits(w), MaxSetBits) \cup {{b} : b \in 0..(w - 1)}

Inputs(w) ==
  (SUBSET (0..7)) \cup Sparse(w)
    \cup {BitNot(s, w) : s \in Sparse(w)}
    \cup {Sub(s, One, w) : s \in Sparse(w)}
    \cup {Add(s, One, w) : s \in Sparse(w)}

IdleScan == T = [bits |-> 8, signed |-> FALSE] /\ x = {} /\ fn = "none" /\ ret = 0
              /\ gnuc = TRUE /\ order = "LITTLE"
IdleIter == bpb = 8 /\ it = [base |-> {}, bitOffset |-> 0]
              /\ other = [base |-> {}, bitOffset |-> 0]
              /\ last = [op |-> "none"] /\ walk = -1
IdleFind == blocks = <<>> /\ begin = [base |-> {}, bitOffset |-> 0]
              /\ end = [base |-> {}, bitOffset |-> 0] /\ arg = [op |-> "none"]
              /\ pc = "idle" /\ reads = {} /\ result = [base |-> {}, bitOffset |-> 0]

(***************************************************************************)
(* Specification of the bit scans and nextPowTwo: an argument of any type, *)
(* on either build, and the calls.                                         *)
(***************************************************************************)
InitScan ==
  /\ T \in IntegralTypes
  /\ x \in Inputs(T.bits)
  /\ fn = "none" /\ ret = 0
  /\ gnuc \in BOOLEAN
  /\ order = "LITTLE"
  /\ IdleIter /\ IdleFind

CallFindFirstSet ==
  /\ fn' = "findFirstSet"
  /\ ret' = findFirstSet(T, x)
  /\ UNCHANGED <<T, x, gnuc, order, iterVars, findVars>>

CallFindLastSet ==
  /\ fn' = "findLastSet"
  /\ ret' = findLastSet(T, x, gnuc)
  /\ UNCHANGED <<T, x, gnuc, order, iterVars, findVars>>

CallNextPowTwo ==
  /\ ~T.signed
  /\ \E ub \in ShiftOutcomes :
       /\ fn' = "nextPowTwo"
       /\ ret' = nextPowTwo(T, x, gnuc, ub)
  /\ UNCHANGED <<T, x, gnuc, order, iterVars, findVars>>

NextScan == CallFindFirstSet \/ CallFindLastSet \/ CallNextPowTwo

SpecScan == InitScan /\ [][NextScan]_vars

(***************************************************************************)
(* Specification of Endian: an argument of any type, on a host of either   *)
(* byte order, and the calls.                                              *)
(***************************************************************************)
InitEndian ==
  /\ T \in IntegralTypes
  /\ x \in Inputs(T.bits)
  /\ fn = "none" /\ ret = 0
  /\ gnuc = TRUE
  /\ order \in {"LITTLE", "BIG"}
  /\ IdleIter /\ IdleFind

CallSwap ==
  /\ fn' = "swap"
  /\ ret' = Endian_swap(T, x)
  /\ UNCHANGED <<T, x, gnuc, order, iterVars, findVars>>

CallBig ==
  /\ fn' = "big"
  /\ ret' = Endian_big(T, x, order)
  /\ UNCHANGED <<T, x, gnuc, order, iterVars, findVars>>

CallLittle ==
  /\ fn' = "little"
  /\ ret' = Endian_little(T, x, order)
  /\ UNCHANGED <<T, x, gnuc, order, iterVars, findVars>>

CallSwapN ==
  /\ fn' = "swapN"
  /\ ret' = Endian_swapN(T.bits, T.signed, x)
  /\ UNCHANGED <<T, x, gnuc, order, iterVars, findVars>>

CallBigN ==
  /\ fn' = "bigN"
  /\ ret' = Endian_bigN(T.bits, T.signed, x, order)
  /\ UNCHANGED <<T, x, gnuc, order, iterVars, findVars>>

CallLittleN ==
  /\ fn' = "littleN"
  /\ ret' = Endian_littleN(T.bits, T.signed, x, order)
  /\ UNCHANGED <<T, x, gnuc, order, iterVars, findVars>>

NextEndian == CallSwap \/ CallBig \/ CallLittle \/ CallSwapN \/ CallBigN \/ CallLittleN

SpecEndian == InitEndian /\ [][NextEndian]_vars

(***************************************************************************)
(* BitIterator.  The base iterator is random access over the block         *)
(* sequence; its position is kept as the ssize_t index of the block it     *)
(* points at, and base arithmetic is arithmetic on that 64-bit index.      *)
(* bitOffset_ is an ssize_t holding a small number.                        *)
(***************************************************************************)
\* Block types have this many bits: bitsPerBlock() of uint8_t .. uint64_t.
BlockBits == {8, 16, 32, 64}

\* The block sequence has this many blocks.
NumBlocks == 2

\* advance() is called with whole blocks plus or minus at most this many bits.
MaxAdvance == 2

Word(n) == WordOf(n, SizeBits)

\* explicit BitIterator(const BaseIter& iter, size_t bitOffset=0)
BitIterator(iter, bitOffset) == [base |-> iter, bitOffset |-> bitOffset]

makeBitIterator(iter) == BitIterator(iter, 0)

\* bitOffset_ = 0; ++this->base_reference();
advanceToNextBlock(i) == [base |-> Add(i.base, One, SizeBits), bitOffset |-> 0]

\* BitIterator& operator=(const BaseIter& other)
assign(i, iter) == BitIterator(iter, 0)

\* bitOffset_ += n;
advanceInBlock(i, n) == [i EXCEPT !.bitOffset = @ + n]

\* advance(ssize_t n): n / bpb and n % bpb are computed in size_t, bpb being one.
advance(i, n, bp) ==
  LET un == Word(n)
      blocks0 == Div(un, bp)
      off0 == Add(Word(i.bitOffset), Word(Mod(un, bp)), SizeBits)
      wraps == ~Less(off0, Word(bp))
      off1 == IF wraps THEN Sub(off0, Word(bp), SizeBits) ELSE off0
      blocks1 == IF wraps THEN Add(blocks0, One, SizeBits) ELSE blocks0
  IN  [base |-> Add(i.base, blocks1, SizeBits), bitOffset |-> IntOf(off1, SizeBits)]

\* if (++bitOffset_ == bitsPerBlock()) advanceToNextBlock();
increment(i, bp) ==
  IF i.bitOffset + 1 = bp THEN advanceToNextBlock(i)
  ELSE [i EXCEPT !.bitOffset = @ + 1]

\* if (bitOffset_-- == 0) { bitOffset_ = bitsPerBlock() - 1; --base; }
decrement_to_bpb(i, bp) ==
  IF i.bitOffset = 0
    THEN [base |-> Sub(i.base, One, SizeBits), bitOffset |-> bp]
    ELSE [i EXCEPT !.bitOffset = @ - 1]
decrement(i, bp) ==
  IF i.bitOffset = 0
    THEN [base |-> Sub(i.base, One, SizeBits), bitOffset |-> bp - 1]
    ELSE [i EXCEPT !.bitOffset = @ - 1]

equal(i, o) == i.bitOffset = o.bitOffset /\ i.base = o.base

\* (other.base - base) * bitsPerBlock() + (other.bitOffset_ - bitOffset_), computed
\* in size_t and returned as ssize_t.
distance_to_in_bytes(i, o, bp) ==
  Add(Mul(Sub(o.base, i.base, SizeBits), 8, SizeBits),
      Word(o.bitOffset - i.bitOffset), SizeBits)
distance_to(i, o, bp) ==
  Add(Mul(Sub(o.base, i.base, SizeBits), bp, SizeBits),
      Word(o.bitOffset - i.bitOffset), SizeBits)

\* The iterators of the sequence: those of its bits, and the one past its last block.
InSequence(i, bp) ==
  /\ IsSmall(i.base, SizeBits)
  /\ \/ IntOf(i.base, SizeBits) \in 0..(NumBlocks - 1) /\ i.bitOffset \in 0..(bp - 1)
     \/ IntOf(i.base, SizeBits) = NumBlocks /\ i.bitOffset = 0

\* The global bit position of an iterator of the sequence.
Position(i, bp) == IntOf(i.base, SizeBits) * bp + i.bitOffset

IteratorAt(g, bp) == BitIterator(Word(g \div bp), g % bp)

AdvanceArgs(bp) ==
  {sgn * (k * bp + d) : sgn \in {-1, 1}, k \in 0..NumBlocks, d \in (-MaxAdvance)..MaxAdvance}

\* The second iterator: near the start, the last bit, and the end of the sequence.
OtherIterators(bp) ==
  {BitIterator(Word(0), 1), BitIterator(Word(NumBlocks - 1), bp - 1),
   makeBitIterator(Word(NumBlocks))}

\* k single increments of i: the first half of them, then the rest from where
\* they lead.
RECURSIVE incrementN(_, _, _)
incrementN(i, k, bp) ==
  IF k = 0 THEN i
  ELSE IF k = 1 THEN increment(i, bp)
  ELSE LET h == k \div 2
       IN  CHOOSE r \in {incrementN(m, k - h, bp) : m \in {incrementN(i, h, bp)}} : TRUE

\* k single decrements of i.
RECURSIVE decrementN(_, _, _)
decrementN(i, k, bp) ==
  IF k = 0 THEN i
  ELSE IF k = 1 THEN decrement(i, bp)
  ELSE LET h == k \div 2
       IN  CHOOSE r \in {decrementN(m, k - h, bp) : m \in {decrementN(i, h, bp)}} : TRUE

\* Where n single steps lead from i: increments for n >= 0, decrements for n < 0.
Stepwise(i, n, bp) == IF n >= 0 THEN incrementN(i, n, bp) ELSE decrementN(i, -n, bp)

(***************************************************************************)
(* Specification of BitIterator: an iterator of a sequence of NumBlocks    *)
(* blocks of any block type, and the operations on it.  An operation is    *)
(* called on an iterator of the sequence and with a target in it.          *)
(***************************************************************************)
InitIter ==
  /\ bpb \in BlockBits
  /\ \E b \in 0..(NumBlocks - 1), o \in 0..(bpb - 1) : it = BitIterator(Word(b), o)
  /\ other \in OtherIterators(bpb)
  /\ last = [op |-> "construct"]
  /\ walk = -1
  /\ IdleScan /\ IdleFind

MakeBegin ==
  /\ it' = makeBitIterator(Word(0))
  /\ last' = [op |-> "makeBitIterator"]
  /\ walk' = 0
  /\ UNCHANGED <<bpb, other, scanVars, findVars>>

Increment ==
  /\ InSequence(it, bpb) /\ Position(it, bpb) < NumBlocks * bpb
  /\ it' = increment(it, bpb)
  /\ last' = [op |-> "increment", pre |-> it]
  /\ walk' = IF walk >= 0 THEN walk + 1 ELSE -1
  /\ UNCHANGED <<bpb, other, scanVars, findVars>>

Decrement ==
  /\ InSequence(it, bpb) /\ Position(it, bpb) > 0
  /\ it' = decrement(it, bpb)
  /\ last' = [op |-> "decrement", pre |-> it]
  /\ walk' = -1
  /\ UNCHANGED <<bpb, other, scanVars, findVars>>

Advance ==
  /\ InSequence(it, bpb)
  /\ \E n \in AdvanceArgs(bpb) :
       /\ Position(it, bpb) + n \in 0..(NumBlocks * bpb)
       /\ it' = advance(it, n, bpb)
       /\ last' = [op |-> "advance", stepwise |-> Stepwise(it, n, bpb),
                    target |-> Position(it, bpb) + n]
  /\ walk' = -1
  /\ UNCHANGED <<bpb, other, scanVars, findVars>>

AdvanceToNextBlock ==
  /\ InSequence(it, bpb) /\ IntOf(it.base, SizeBits) < NumBlocks
  /\ it' = advanceToNextBlock(it)
  /\ last' = [op |-> "advanceToNextBlock"]
  /\ walk' = -1
  /\ UNCHANGED <<bpb, other, scanVars, findVars>>

Assign ==
  /\ \E b \in 0..NumBlocks : it' = assign(it, Word(b))
  /\ last' = [op |-> "assign"]
  /\ walk' = -1
  /\ UNCHANGED <<bpb, other, scanVars, findVars>>

NextIter ==
  \/ MakeBegin \/ Increment \/ Decrement \/ Advance
  \/ AdvanceToNextBlock \/ Assign

SpecIter == InitIter /\ [][NextIter]_vars

(***************************************************************************)
(* findFirstSet(BitIterator begin, BitIterator end)                        *)
(***************************************************************************)
\* The blocks hold at most this many 1 bits, or all but that many.
MaxFindBits == 1

\* BaseIter::value_type, an unsigned type of bp bits.
value_type(bp) == [bits |-> bp, signed |-> FALSE]

\* v &= ~((one << offset) - 1), evaluated in the promoted type of value_type.
MaskBelow_none(t, v, offset) == v
MaskBelow(t, v, offset) ==
  LET pt == Promoted(t)
      m == Sub(ShiftLeft(static_cast(One, t, pt), offset, pt.bits), One, pt.bits)
  IN  static_cast(BitAnd(static_cast(v, t, pt), BitNot(m, pt.bits)), pt, t)

\* v &= (one << offset) - 1
MaskFrom(t, v, offset) ==
  LET pt == Promoted(t)
      m == Sub(ShiftLeft(static_cast(One, t, pt), offset, pt.bits), One, pt.bits)
  IN  static_cast(BitAnd(static_cast(v, t, pt), m), pt, t)

\* *i.base(): the block, or anything when the base is not at a block of the sequence.
Dereference(bl, i, bp) ==
  LET k == IntOf(i.base, SizeBits)
  IN  IF IsSmall(i.base, SizeBits) /\ k \in 0..(Len(bl) - 1) THEN {bl[k + 1]}
      ELSE {{}, AllOnes(bp)}

\* if (end.bitOffset() != 0)
TailReadsBlock_always(e) == TRUE
TailReadsBlock(e) == e.bitOffset # 0

\* The block sequence whose 1 bits are at the global positions G.
BlocksOf(G, bp) == [k \in 1..NumBlocks |-> {g - bp * (k - 1) : g \in G \cap ((bp * (k - 1))..(bp * k - 1))}]

FindContents(bp) ==
  LET all == 0..(NumBlocks * bp - 1)
      few == UpTo(all, MaxFindBits)
  IN  {BlocksOf(G, bp) : G \in few \cup {all \ H : H \in few}}

(***************************************************************************)
(* Specification of the ranged findFirstSet: a sequence of NumBlocks       *)
(* uint8_t blocks, a range begin <= end of it, and the call, step by step. *)
(***************************************************************************)
InitFind ==
  /\ bpb = 8
  /\ blocks \in FindContents(bpb)
  /\ \E pb, pe \in 0..(NumBlocks * bpb) :
       /\ pb <= pe
       /\ arg = [begin |-> IteratorAt(pb, bpb), end |-> IteratorAt(pe, bpb), blocks |-> blocks]
  /\ begin = BitIterator({}, 0) /\ end = BitIterator({}, 0)
  /\ pc = "idle" /\ reads = {} /\ result = BitIterator({}, 0)
  /\ it = BitIterator({}, 0) /\ other = BitIterator({}, 0)
  /\ last = [op |-> "none"] /\ walk = -1
  /\ IdleScan

\* The call: begin and end are passed by value.
FindCall ==
  /\ pc = "idle"
  /\ begin' = arg.begin /\ end' = arg.end
  /\ pc' = "loop"
  /\ UNCHANGED <<blocks, arg, reads, result, scanVars, iterVars>>

\* One turn of while (begin.base() != end.base()) { ... }
FindLoop ==
  /\ pc = "loop" /\ begin.base # end.base
  /\ \E v0 \in Dereference(blocks, begin, bpb) :
       LET v == MaskBelow(value_type(bpb), v0, begin.bitOffset)
           firstSet == findFirstSet(value_type(bpb), v)
       IN  IF firstSet # 0
             THEN /\ begin' = advanceInBlock(begin, (firstSet - 1) - begin.bitOffset)
                  /\ result' = begin'
                  /\ pc' = "done"
             ELSE /\ begin' = advanceToNextBlock(begin)
                  /\ pc' = "loop"
                  /\ UNCHANGED result
  /\ reads' = reads \cup {begin.base}
  /\ UNCHANGED <<blocks, end, arg, scanVars, iterVars>>

\* The loop ends: begin points to the same block as end.
FindLoopExit ==
  /\ pc = "loop" /\ begin.base = end.base
  /\ pc' = "tail"
  /\ UNCHANGED <<blocks, begin, end, arg, reads, result, scanVars, iterVars>>

\* if (end.bitOffset() != 0) { ... } return end;
FindTail ==
  /\ pc = "tail"
  /\ IF TailReadsBlock(end)
       THEN /\ \E v0 \in Dereference(blocks, begin, bpb) :
                 LET v1 == MaskBelow(value_type(bpb), v0, begin.bitOffset)
                     v == MaskFrom(value_type(bpb), v1, end.bitOffset)
                     firstSet == findFirstSet(value_type(bpb), v)
                 IN  IF firstSet # 0
                       THEN /\ begin' = advanceInBlock(begin, (firstSet - 1) - begin.bitOffset)
                            /\ result' = begin'
                       ELSE /\ result' = end
                            /\ UNCHANGED begin
            /\ reads' = reads \cup {begin.base}
       ELSE /\ result' = end
            /\ UNCHANGED <<begin, reads>>
  /\ pc' = "done"
  /\ UNCHANGED <<blocks, end, arg, scanVars, iterVars>>

NextFind == FindCall \/ FindLoop \/ FindLoopExit \/ FindTail

SpecFind == InitFind /\ [][NextFind]_vars

(***************************************************************************)
(* Claims about the bit scans, nextPowTwo and Endian.                      *)
(***************************************************************************)
IsPowTwo(v) == Cardinality(v) = 1

\* The largest power of two a w-bit unsigned type holds.
TopPowTwo(w) == {w - 1}

\* floor(log2(u)) of a non-zero unsigned u: the k with 2^k <= u < 2^(k+1).
FloorLog2(u) == CHOOSE k \in u : \A j \in u : j <= k

\* C1: scalar findFirstSet(x) is 0 for x == 0; for x != 0 it is in 1..bitwidth(x),
\* bit r-1 of x's own pattern is set and every lower bit is clear; the result is the
\* same for the signed and the unsigned type holding that pattern.
C1_FindFirstSetScalar ==
  fn = "findFirstSet" =>
    /\ (x = {} => ret = 0)
    /\ (x # {} => /\ ret \in 1..T.bits
                  /\ (ret - 1) \in x
                  /\ \A b \in 0..(ret - 2) : b \notin x)
    /\ ret = findFirstSet([T EXCEPT !.signed = ~T.signed], x)

\* The unsigned 64-bit value with its top bit and nothing below it set: reinterpreted
\* as a negative long, its first set bit is bit 64.
C1_Witness ==
  fn = "findFirstSet" /\ T = [bits |-> 64, signed |-> FALSE] /\ x = {63} /\ ret = 64

\* C2: findLastSet(x) is 0 for x == 0 and 1 + floor(log2(u)) otherwise, u the pattern
\* of x read as unsigned at its own width (1 -> 1, 255 -> 8, 256 -> 9, a negative
\* value of width w -> w); findLastSetPortable returns the same value.
C2_FindLastSet ==
  fn = "findLastSet" =>
    /\ (x = {} => ret = 0)
    /\ (x # {} => ret = 1 + FloorLog2(x))
    /\ (x = WordOf(1, T.bits) => ret = 1)
    /\ (x = WordOf(255, T.bits) => ret = 8)
    /\ (x = WordOf(256, T.bits) /\ T.bits > 8 => ret = 9)
    /\ (T.signed /\ (T.bits - 1) \in x => ret = T.bits)
    /\ ret = findLastSetPortable(
               static_cast(static_cast(x, T, make_unsigned(T)), make_unsigned(T), uint64_t))
    /\ ret = findLastSet(T, x, ~gnuc)

\* A negative int16_t on the __GNUC__ build.
C2_Witness ==
  fn = "findLastSet" /\ gnuc /\ T = [bits |-> 16, signed |-> TRUE]
    /\ 15 \in x /\ ret = 16

NextPowTwoContract ==
  /\ IsPowTwo(ret)
  /\ LessEq(x, ret)
  /\ \A k \in 0..(T.bits - 1) : ~(LessEq(x, {k}) /\ Less({k}, ret))
  /\ (x = {} => ret = One)

\* C3 as claimed: for every unsigned v, nextPowTwo(v) is a power of two, >= v, with
\* no power of two p, v <= p < nextPowTwo(v); nextPowTwo(0) == 1.
C3_NextPowTwoAllInputs == fn = "nextPowTwo" => NextPowTwoContract

\* C3 as amended: the same for every v that is at most 2^(w-1), the largest power
\* of two of the type.
C3_NextPowTwoInRange ==
  fn = "nextPowTwo" /\ LessEq(x, TopPowTwo(T.bits)) => NextPowTwoContract

\* nextPowTwo<uint16_t>(2^14 + 1) == 2^15.
C3_Witness ==
  fn = "nextPowTwo" /\ T.bits = 16 /\ x = {14, 0} /\ ret = {15}

\* C9: for every unsigned width and every v <= 2^(w-1), the fast path
\* (1ul << findLastSet(v - 1)) and nextPowTwoPortable(v) return the same value,
\* whatever the over-wide shifts of the portable path produce.
C9_NextPowTwoPathsAgree ==
  fn = "nextPowTwo" /\ LessEq(x, TopPowTwo(T.bits)) =>
    \A ub1, ub2 \in ShiftOutcomes :
      /\ nextPowTwo_gnuc(T, x, ub1) = nextPowTwoPortable(T, x, ub2)
      /\ ret = nextPowTwoPortable(T, x, ub2)

\* nextPowTwo<uint64_t>(2^56 + 2^8) on the portable build.
C9_Witness ==
  fn = "nextPowTwo" /\ ~gnuc /\ T.bits = 64 /\ x = {56, 8} /\ ret = {57}

\* Byte k of v, as a number.
ByteVal(v, k) == Octet(v, k)

ReversesBytes(t, v, r) ==
  LET n == t.bits \div 8
  IN  \A k \in 0..(n - 1) : ByteVal(r, k) = ByteVal(v, (n - 1) - k)

\* C7: swap(x) reverses the bytes of x (the identity at 8 bits) and is its own
\* inverse; on a little-endian host big == swap and little == identity, on a
\* big-endian host the reverse, Endian::order telling which; big and little are
\* their own inverses; the width-suffixed wrappers return what the generic forms do.
C7_Endian ==
  /\ fn \in {"swap", "swapN"} =>
       /\ ReversesBytes(T, x, ret)
       /\ (T.bits = 8 => ret = x)
       /\ Endian_swap(T, ret) = x
       /\ Endian_swapN(T.bits, T.signed, ret) = x
  /\ fn \in {"big", "bigN"} =>
       /\ (Endian_order(order) = "LITTLE" => ReversesBytes(T, x, ret))
       /\ (Endian_order(order) = "BIG" => ret = x)
       /\ Endian_big(T, ret, order) = x
       /\ Endian_bigN(T.bits, T.signed, ret, order) = x
  /\ fn \in {"little", "littleN"} =>
       /\ (Endian_order(order) = "LITTLE" => ret = x)
       /\ (Endian_order(order) = "BIG" => ReversesBytes(T, x, ret))
       /\ Endian_little(T, ret, order) = x
       /\ Endian_littleN(T.bits, T.signed, ret, order) = x

\* big64 of 0x0100000000000080 on a little-endian host.
C7_Witness ==
  fn = "bigN" /\ order = "LITTLE" /\ T.bits = 64 /\ x = {56, 7} /\ ret = {0, 63}

(***************************************************************************)
(* Claims about BitIterator.                                               *)
(***************************************************************************)
\* C5: advance(n) leaves the iterator where n single increments (n >= 0) or |n|
\* single decrements (n < 0) leave it: at global bit position b*bitsPerBlock + o + n.
C5_AdvanceIsRepeatedSteps ==
  last.op = "advance" =>
    /\ it = last.stepwise
    /\ it = IteratorAt(last.target, bpb)

\* C8: whatever was called, 0 <= bitOffset < bitsPerBlock; increment at offset
\* bitsPerBlock-1 moves the base one block on and zeroes the offset, decrement at
\* offset 0 moves the base one block back and sets the offset to bitsPerBlock-1,
\* and otherwise they move the offset by one and leave the base alone.
C8_OffsetInvariant ==
  /\ it.bitOffset \in 0..(bpb - 1)
  /\ last.op = "increment" =>
       IF last.pre.bitOffset = bpb - 1
         THEN it.base = Word(IntOf(last.pre.base, SizeBits) + 1) /\ it.bitOffset = 0
         ELSE it.base = last.pre.base /\ it.bitOffset = last.pre.bitOffset + 1
  /\ last.op = "decrement" =>
       IF last.pre.bitOffset = 0
         THEN it.base = Word(IntOf(last.pre.base, SizeBits) - 1) /\ it.bitOffset = bpb - 1
         ELSE it.base = last.pre.base /\ it.bitOffset = last.pre.bitOffset - 1

\* A decrement across a block boundary, of 64-bit blocks.
C8_Witness ==
  /\ last.op = "decrement" /\ bpb = 64 /\ last.pre = BitIterator(Word(1), 0)
  /\ it = BitIterator(Word(0), 63)

\* C6: single increments from makeBitIterator(begin) reach makeBitIterator(end) after
\* exactly L * bitsPerBlock steps and not before, never visiting a position twice,
\* and the number of steps taken is distance_to from the start; for any two
\* iterators a, b of the sequence distance_to(a, b) is
\* (b.base - a.base) * bitsPerBlock + (b.bitOffset - a.bitOffset), negative when b
\* precedes a and 0 exactly when a equals b.
C6_WalkAndDistance ==
  /\ walk >= 0 =>
       /\ equal(it, makeBitIterator(Word(NumBlocks))) <=> walk = NumBlocks * bpb
       /\ \A j \in 0..(walk - 1) : ~equal(incrementN(makeBitIterator(Word(0)), j, bpb), it)
       /\ distance_to(makeBitIterator(Word(0)), it, bpb) = Word(walk)
       /\ walk = NumBlocks * bpb =>
            distance_to(makeBitIterator(Word(0)), makeBitIterator(Word(NumBlocks)), bpb)
              = Word(walk)
  /\ InSequence(it, bpb) /\ InSequence(other, bpb) =>
       LET d == distance_to(it, other, bpb)
       IN  /\ d = Word((IntOf(other.base, SizeBits) - IntOf(it.base, SizeBits)) * bpb
                         + (other.bitOffset - it.bitOffset))
           /\ (SizeBits - 1) \in d <=> Position(other, bpb) < Position(it, bpb)
           /\ d = {} <=> equal(it, other)

\* The walk over 32-bit blocks has arrived at the end.
C6_Witness ==
  /\ walk = NumBlocks * bpb /\ bpb = 32
  /\ equal(it, other) /\ other = makeBitIterator(Word(NumBlocks))

(***************************************************************************)
(* Claims about the ranged findFirstSet.                                   *)
(***************************************************************************)
\* The bit-by-bit probe of [pb, pe): the first position whose bit is 1, or pe.
LinearProbe(bl, pb, pe, bp) ==
  LET S == {g \in pb..(pe - 1) : (g % bp) \in bl[(g \div bp) + 1]}
  IN  IF S = {} THEN pe ELSE Min(S)

C10_ReadsInsideRange ==
  pc # "idle" =>
    /\ \A b \in reads :
         /\ IsSmall(b, SizeBits)
         /\ \/ IntOf(arg.begin.base, SizeBits) <= IntOf(b, SizeBits)
               /\ IntOf(b, SizeBits) < IntOf(arg.end.base, SizeBits)
            \/ b = arg.end.base /\ arg.end.bitOffset # 0
    /\ blocks = arg.blocks

\* The whole sequence searched, no bit set: every block was read, and the search
\* stopped at the one-past-the-last-block position without reading there.
C10_Witness ==
  /\ pc = "done"
  /\ arg.begin = makeBitIterator(Word(0)) /\ arg.end = makeBitIterator(Word(NumBlocks))
  /\ reads = {Word(k) : k \in 0..(NumBlocks - 1)}
  /\ result = arg.end

====
